---- MODULE Spec2Model ----
(***************************************************************************)
(* pattern-break.py: numeric coverage extraction, grouping and gap         *)
(* detection, modelled as the state machine of main().                     *)
(*                                                                         *)
(* Strings are sequences of one-character strings, so that digit runs,     *)
(* str(), int(), zfill() and find() are computed and not assumed.          *)
(* An optional value (argparse's None default) is a sequence of length     *)
(* at most one: <<>> is None, <<x>> is the value x.                        *)
(***************************************************************************)
EXTENDS Integers, Sequences, FiniteSets, TLC

VARIABLES
    args,       \* the argparse namespace returned by parse_args()
    coll,       \* [files, dirs]: what collect_files() and collect_dirs() return,
                \* each a sequence of [dkey, items] in dict order
    pc,         \* position of main()
    di,         \* group_items: index of the directory being read
    ii,         \* group_items: index of the item being read in coll[di]
    cov_list,   \* group_items: last value returned by parse_coverage_list
    picks,      \* group_items: picks (or flat) collected so far
    groups,     \* group_items: groups built so far (its return value when done)
    artifact,   \* main: the artifact_type being processed, "files" or "dirs"
    gi,         \* main: index of the group being analysed
    si,         \* detect_breaks_in_group: index i of the Internal loop
    segments,   \* detect_breaks_in_group: segments appended so far
    seg,        \* build_missing_segment: its locals st, ed, btype, v, items
    results     \* main: the GroupResults produced so far

vars == <<args, coll, pc, di, ii, cov_list, picks, groups, artifact, gi, si,
          segments, seg, results>>

-----------------------------------------------------------------------------
(* Optional values *)

None == <<>>
Some(x) == <<x>>
IsNone(o) == o = <<>>
Val(o) == o[1]

\* Python truthiness of an optional integer: None and 0 are false
Truthy(o) == o # <<>> /\ o[1] # 0

-----------------------------------------------------------------------------
(* Integers and strings *)

abs(x) == IF x < 0 THEN 0 - x ELSE x

min(a, b) == IF a <= b THEN a ELSE b

max(a, b) == IF a >= b THEN a ELSE b

SetMin(S) == CHOOSE x \in S : \A y \in S : x <= y

SetMax(S) == CHOOSE x \in S : \A y \in S : x >= y

\* Python's floor division a // b (b # 0): rounds towards minus infinity
FloorDiv(a, b) == IF b > 0 THEN a \div b ELSE (0 - a) \div (0 - b)

Digits == <<"0", "1", "2", "3", "4", "5", "6", "7", "8", "9">>

IsDigit(c) == \E k \in 1..10 : Digits[k] = c

DigitVal(c) == (CHOOSE k \in 1..10 : Digits[k] = c) - 1

\* int(s) for a string of decimal digits
RECURSIVE int(_)
int(s) ==
    IF s = <<>> THEN 0
    ELSE int(SubSeq(s, 1, Len(s) - 1)) * 10 + DigitVal(s[Len(s)])

RECURSIVE StrNat(_)
StrNat(n) ==
    IF n < 10 THEN <<Digits[n + 1]>>
    ELSE StrNat(n \div 10) \o <<Digits[(n % 10) + 1]>>

\* str(v) of an integer
str(v) == IF v < 0 THEN <<"-">> \o StrNat(0 - v) ELSE StrNat(v)

Zeros(n) == [k \in 1..n |-> "0"]

\* s.zfill(width): zeros go after a leading sign; never truncates
zfill(s, width) ==
    IF Len(s) >= width THEN s
    ELSE IF s # <<>> /\ s[1] \in {"+", "-"}
         THEN <<s[1]>> \o Zeros(width - Len(s)) \o Tail(s)
         ELSE Zeros(width - Len(s)) \o s

\* s.find(sub): 0-based index of the first occurrence, -1 when absent
find(s, sub) ==
    LET hits == {k \in 1..(Len(s) - Len(sub) + 1) :
                    SubSeq(s, k, k + Len(sub) - 1) = sub}
    IN IF hits = {} THEN 0 - 1 ELSE SetMin(hits) - 1

\* sub in s
Contains(s, sub) == find(s, sub) >= 0

\* the characters used in names, in code point order
Chars == <<"-", ".">> \o Digits \o <<"_", "a", "f", "g", "i", "m", "n", "p", "x", "z">>

ord(c) == CHOOSE k \in 1..Len(Chars) : Chars[k] = c

CharLess(c, d) == ord(c) < ord(d)

\* comparison of strings by code points (Python's str <)
RECURSIVE StrLess(_, _)
StrLess(s, t) ==
    IF t = <<>> THEN FALSE
    ELSE IF s = <<>> THEN TRUE
    ELSE IF s[1] = t[1] THEN StrLess(Tail(s), Tail(t))
    ELSE CharLess(s[1], t[1])

\* sorted(S) of a finite set of integers
RECURSIVE sorted(_)
sorted(S) ==
    IF S = {} THEN <<>>
    ELSE LET m == SetMin(S) IN <<m>> \o sorted(S \ {m})

Range(s) == {s[k] : k \in 1..Len(s)}

-----------------------------------------------------------------------------
(* Regular expressions used by parse_coverage_list *)

\* last index of the maximal digit run that starts at index i (nm[i] a digit)
RECURSIVE RunEnd(_, _)
RunEnd(nm, i) ==
    IF i < Len(nm) /\ IsDigit(nm[i + 1]) THEN RunEnd(nm, i + 1) ELSE i

\* re.findall(r"(\d+)", nm), scanning from index i: the maximal digit runs
RECURSIVE FindBlocks(_, _)
FindBlocks(nm, i) ==
    IF i > Len(nm) THEN <<>>
    ELSE IF ~IsDigit(nm[i]) THEN FindBlocks(nm, i + 1)
    ELSE LET e == RunEnd(nm, i)
         IN <<SubSeq(nm, i, e)>> \o FindBlocks(nm, e + 1)

\* A range pattern is digits, hyphen, digits with `ngroups` capture groups:
\*   2: (\d+)-(\d+)  (the default)   1: (\d+)-\d+   0: \d+-\d+
\* Does the pattern match at index i?  \d+ is greedy; giving digits back
\* never helps, since the character after a shorter run is a digit.
RangeMatchesAt(nm, i) ==
    /\ i <= Len(nm)
    /\ IsDigit(nm[i])
    /\ LET e == RunEnd(nm, i)
       IN /\ e + 2 <= Len(nm)
          /\ nm[e + 1] = "-"
          /\ IsDigit(nm[e + 2])

RECURSIVE FindRangesAlwaysTuple(_, _, _)
FindRangesAlwaysTuple(ngroups, nm, i) ==
    IF i > Len(nm) THEN <<>>
    ELSE IF ~RangeMatchesAt(nm, i) THEN FindRangesAlwaysTuple(ngroups, nm, i + 1)
    ELSE LET e  == RunEnd(nm, i)
             e2 == RunEnd(nm, e + 2)
         IN <<[is_tuple |-> TRUE,
               parts |-> <<SubSeq(nm, i, e), SubSeq(nm, e + 2, e2)>>]>>
            \o FindRangesAlwaysTuple(ngroups, nm, e2 + 1)

\* re.findall(range_regex, full_name) from index i: non-overlapping matches,
\* leftmost first.  With two or more groups each match is a tuple of the
\* captured strings; with one group it is that group's string; with none it
\* is the whole matched string.
RECURSIVE FindRanges(_, _, _)
FindRanges(ngroups, nm, i) ==
    IF i > Len(nm) THEN <<>>
    ELSE IF ~RangeMatchesAt(nm, i) THEN FindRanges(ngroups, nm, i + 1)
    ELSE LET e  == RunEnd(nm, i)
             e2 == RunEnd(nm, e + 2)
             a  == SubSeq(nm, i, e)
             b  == SubSeq(nm, e + 2, e2)
             m  == IF ngroups >= 2 THEN [is_tuple |-> TRUE, parts |-> <<a, b>>]
                   ELSE IF ngroups = 1 THEN [is_tuple |-> FALSE, parts |-> <<a>>]
                   ELSE [is_tuple |-> FALSE, parts |-> <<SubSeq(nm, i, e2)>>]
         IN <<m>> \o FindRanges(ngroups, nm, e2 + 1)

-----------------------------------------------------------------------------
(* COVERAGE PARSING *)

RECURSIVE RangeCoverUnordered(_, _)
RangeCoverUnordered(rngs, k) ==
    IF k > Len(rngs) THEN {}
    ELSE LET m == rngs[k]
         IN (IF m.is_tuple /\ Len(m.parts) >= 2
             THEN int(m.parts[1])..int(m.parts[2])
             ELSE {})
            \cup RangeCoverUnordered(rngs, k + 1)

\* the integers added by the multi-range matches rngs[k..]
RECURSIVE RangeCover(_, _)
RangeCover(rngs, k) ==
    IF k > Len(rngs) THEN {}
    ELSE LET m == rngs[k]
         IN (IF m.is_tuple /\ Len(m.parts) >= 2
             THEN LET st == int(m.parts[1])
                      ed == int(m.parts[2])
                      lo == min(st, ed)
                      hi == max(st, ed)
                  IN lo..hi
             ELSE {})
            \cup RangeCover(rngs, k + 1)

coverage_for_block(full_name, val, multi_range, range_regex) ==
    LET cov == {val} \cup
               (IF multi_range
                THEN RangeCover(FindRanges(range_regex, full_name, 1), 1)
                ELSE {})
    IN sorted(cov)

\* [c] if c else []
ListIf(c) == IF c # <<>> THEN <<c>> ELSE <<>>

RECURSIVE CoverAll(_, _, _, _, _)
CoverAll(nm, blocks_i, k, multi_range, range_regex) ==
    IF k > Len(blocks_i) THEN <<>>
    ELSE ListIf(coverage_for_block(nm, blocks_i[k], multi_range, range_regex))
         \o CoverAll(nm, blocks_i, k + 1, multi_range, range_regex)

parse_coverage_listNoGuard(it, block_policy, multi_range, range_regex) ==
    LET nm       == it.name
        blocks   == FindBlocks(nm, 1)
        blocks_i == IF blocks = <<>> THEN <<0>>
                    ELSE [k \in 1..Len(blocks) |-> int(blocks[k])]
    IN IF block_policy = "first"
       THEN ListIf(coverage_for_block(nm, blocks_i[1], multi_range, range_regex))
       ELSE IF block_policy = "largest"
       THEN ListIf(coverage_for_block(nm, SetMax(Range(blocks_i)),
                                      multi_range, range_regex))
       ELSE CoverAll(nm, blocks_i, 1, multi_range, range_regex)

parse_coverage_listLast(it, block_policy, multi_range, range_regex) ==
    LET nm       == it.name
        blocks   == FindBlocks(nm, 1)
        blocks_i == [k \in 1..Len(blocks) |-> int(blocks[k])]
    IN IF blocks = <<>> THEN <<>>
       ELSE IF block_policy = "first"
            THEN ListIf(coverage_for_block(nm, blocks_i[1], multi_range, range_regex))
       ELSE IF block_policy = "largest"
            THEN ListIf(coverage_for_block(nm, blocks_i[Len(blocks_i)],
                                           multi_range, range_regex))
       ELSE CoverAll(nm, blocks_i, 1, multi_range, range_regex)

parse_coverage_list(it, block_policy, multi_range, range_regex) ==
    LET nm       == it.name
        blocks   == FindBlocks(nm, 1)
        blocks_i == [k \in 1..Len(blocks) |-> int(blocks[k])]
    IN IF blocks = <<>> THEN <<>>
       ELSE IF block_policy = "first"
            THEN ListIf(coverage_for_block(nm, blocks_i[1], multi_range, range_regex))
       ELSE IF block_policy = "largest"
            THEN ListIf(coverage_for_block(nm, SetMax(Range(blocks_i)),
                                           multi_range, range_regex))
       ELSE IF block_policy = "all"
            THEN CoverAll(nm, blocks_i, 1, multi_range, range_regex)
       ELSE CoverAll(nm, blocks_i, 1, multi_range, range_regex)

-----------------------------------------------------------------------------
(* COLLECTION LOGIC: the filter applied by group_items *)

\* pat (a regex) is None in this model; subf is a substring or the empty string
item_passes_filter(it, pat, subf) ==
    LET nm == it.name
    IN IF subf # <<>> /\ ~Contains(nm, subf) THEN FALSE ELSE TRUE

-----------------------------------------------------------------------------
(* GROUPING LOGIC *)

\* the sort key (coverage[0], name) of a pick, compared as Python tuples
KeyLess(p, q) ==
    \/ p.coverage[1] < q.coverage[1]
    \/ /\ p.coverage[1] = q.coverage[1]
       /\ StrLess(p.item.name, q.item.name)

\* p put after the entries of the sorted list fr whose key is not above its own
InsertPick(fr, p) ==
    LET n == Cardinality({k \in 1..Len(fr) : ~KeyLess(p, fr[k])})
    IN SubSeq(fr, 1, n) \o <<p>> \o SubSeq(fr, n + 1, Len(fr))

SortPicksUnsorted(ps) == ps

\* list.sort(key=...): stable, so equal keys keep their order
RECURSIVE SortPicks(_)
SortPicks(ps) ==
    IF Len(ps) <= 1 THEN ps
    ELSE InsertPick(SortPicks(SubSeq(ps, 1, Len(ps) - 1)), ps[Len(ps)])

NoNumeric == <<"<no-numeric>">>

\* re.sub(r"\d+$", "", prefix)
RECURSIVE StripTrailingDigits(_)
StripTrailingDigits(s) ==
    IF s # <<>> /\ IsDigit(s[Len(s)])
    THEN StripTrailingDigits(SubSeq(s, 1, Len(s) - 1))
    ELSE s

\* the loop returns at the first pick whose coverage is not empty
compute_group_label_for_picks(ps) ==
    LET withCov == {k \in 1..Len(ps) : ps[k].coverage # <<>>}
    IN IF withCov = {} THEN NoNumeric
       ELSE LET p      == ps[SetMin(withCov)]
                val    == p.coverage[1]
                nm     == p.item.name
                zval   == zfill(str(val), Len(str(val)))
                idx    == IF find(nm, zval) < 0 THEN find(nm, str(val))
                          ELSE find(nm, zval)
                prefix == StripTrailingDigits(SubSeq(nm, 1, idx))
            IN IF idx < 0 THEN NoNumeric
               ELSE IF prefix # <<>> THEN prefix ELSE NoNumeric

compute_group_label_for_flat(citems) == compute_group_label_for_picks(citems)

PickOf(x) == [item |-> x.item, coverage |-> x.coverage]

PicksOf(xs) == [k \in 1..Len(xs) |-> PickOf(xs[k])]

Group(group_id, directory, label, artifact_type, ps) ==
    [group_id |-> group_id, directory |-> directory, label |-> label,
     artifact_type |-> artifact_type, picks |-> ps]

DirGroupIdNoIndex(dkey, idx) == dkey \o "__group0"

DirGroupId(dkey, idx) == dkey \o "__group" \o ToString(idx)

CrossGroupId(idx) == "crossdir_" \o ToString(idx)

\* groups.append({...}) of build_subgroups_in_dir (directory given) and of
\* build_groups_from_flat (directory None)
MakeGroup(directory, idx, citems, artifact_type) ==
    IF directory # None
    THEN Group(DirGroupId(Val(directory), idx), directory,
               compute_group_label_for_picks(citems), artifact_type, citems)
    ELSE Group(CrossGroupId(idx), None,
               compute_group_label_for_flat(citems), artifact_type,
               PicksOf(citems))

\* The loop shared by build_subgroups_in_dir and build_groups_from_flat, from
\* pick k on; st holds the locals groups, citems, idx, lastv.  A new group
\* starts where threshold is set and mv - lastv > threshold
\* (build_subgroups_in_dir runs the loop only with a threshold set).
RECURSIVE SplitLoop(_, _, _, _, _, _)
SplitLoop(ps, k, st, threshold, directory, artifact_type) ==
    IF k > Len(ps)
    THEN IF st.citems # <<>>
         THEN Append(st.groups, MakeGroup(directory, st.idx, st.citems, artifact_type))
         ELSE st.groups
    ELSE LET p  == ps[k]
             mv == p.coverage[1]
         IN IF st.lastv = None
            THEN SplitLoop(ps, k + 1,
                           [st EXCEPT !.citems = <<p>>, !.lastv = Some(mv)],
                           threshold, directory, artifact_type)
            ELSE IF Truthy(threshold) /\ (mv - Val(st.lastv)) > Val(threshold)
            THEN SplitLoop(ps, k + 1,
                           [groups |-> Append(st.groups,
                                MakeGroup(directory, st.idx, st.citems, artifact_type)),
                            citems |-> <<p>>, idx |-> st.idx + 1,
                            lastv |-> Some(mv)],
                           threshold, directory, artifact_type)
            ELSE SplitLoop(ps, k + 1,
                           [st EXCEPT !.citems = Append(st.citems, p),
                                      !.lastv = Some(mv)],
                           threshold, directory, artifact_type)

SplitStart == [groups |-> <<>>, citems |-> <<>>, idx |-> 0, lastv |-> None]

build_subgroups_in_dirSplitByOne(dkey, ps, threshold, artifact_type) ==
    SplitLoop(ps, 1, SplitStart,
              IF Truthy(threshold) THEN threshold ELSE Some(1),
              Some(dkey), artifact_type)

build_subgroups_in_dir(dkey, ps, threshold, artifact_type) ==
    IF ~Truthy(threshold)
    THEN <<Group(DirGroupId(dkey, 0), Some(dkey),
                 compute_group_label_for_picks(ps), artifact_type, ps)>>
    ELSE SplitLoop(ps, 1, SplitStart, threshold, Some(dkey), artifact_type)

build_groups_from_flat(flat, threshold, artifact_type) ==
    SplitLoop(SortPicks(flat), 1, SplitStart, threshold, None, artifact_type)

-----------------------------------------------------------------------------
(* MISSING DETECTION *)

guess_prefix_suffix(it, example_val) ==
    LET nm   == it.name
        zstr == zfill(str(example_val), Len(str(example_val)))
        idx  == find(nm, zstr)
        idx2 == find(nm, str(example_val))
    IN IF idx < 0
       THEN IF idx2 < 0
            THEN <<<<"???_">>, <<".xxx">>>>
            ELSE <<SubSeq(nm, 1, idx2),
                   SubSeq(nm, idx2 + Len(str(example_val)) + 1, Len(nm))>>
       ELSE <<SubSeq(nm, 1, idx), SubSeq(nm, idx + Len(zstr) + 1, Len(nm))>>

\* the entries appended to real_cov_items for one pick
PickCovItems(p) ==
    LET ps == guess_prefix_suffix(p.item, p.coverage[1])
    IN [k \in 1..Len(p.coverage) |->
          [val |-> p.coverage[k], prefix |-> ps[1], suffix |-> ps[2],
           is_dir |-> p.item.is_dir, size |-> p.item.size]]

\* real_cov_items after the loop over picks k..
RECURSIVE RealCovItems(_, _)
RealCovItems(ps, k) ==
    IF k > Len(ps) THEN <<>>
    ELSE PickCovItems(ps[k]) \o RealCovItems(ps, k + 1)

\* all_ints after the loop over picks
AllInts(ps) == UNION {Range(ps[k].coverage) : k \in 1..Len(ps)}

RECURSIVE SumSizes(_, _)
SumSizes(ps, k) ==
    IF k > Len(ps) THEN 0 ELSE ps[k].item.size + SumSizes(ps, k + 1)

\* Decide sequence start
SeqStart(actual_min, start_num, mod_boundary) ==
    IF start_num # None THEN Val(start_num)
    ELSE IF Truthy(mod_boundary)
         THEN FloorDiv(actual_min, Val(mod_boundary)) * Val(mod_boundary)
         ELSE actual_min

SeqEndNextMultiple(actual_max, end_num, mod_boundary) ==
    IF end_num # None THEN Val(end_num)
    ELSE IF Truthy(mod_boundary)
         THEN (FloorDiv(actual_max, Val(mod_boundary)) + 1) * Val(mod_boundary)
         ELSE actual_max

\* Decide sequence end
SeqEnd(actual_max, end_num, mod_boundary) ==
    IF end_num # None THEN Val(end_num)
    ELSE IF Truthy(mod_boundary)
         THEN (FloorDiv(actual_max, Val(mod_boundary)) + 1) * Val(mod_boundary) - 1
         ELSE actual_max

\* the bounds of the three kinds of candidate runs
LeadingRunByOne(seq_start, actual_min, increment) ==
    [st |-> seq_start, ed |-> actual_min - 1]

LeadingRun(seq_start, actual_min, increment) ==
    [st |-> seq_start, ed |-> actual_min - increment]

InternalRunInclusive(cval, nval, increment) ==
    [st |-> cval + increment, ed |-> nval]

InternalRun(cval, nval, increment) ==
    [st |-> cval + increment, ed |-> nval - 1]

TrailingRunFromMax(seq_end, actual_max, increment) ==
    [st |-> actual_max, ed |-> seq_end]

TrailingRun(seq_end, actual_max, increment) ==
    [st |-> actual_max + increment, ed |-> seq_end]

MissingItemUnpadded(v, ed, btype, explain, mod_boundary) ==
    [val    |-> v,
     padded |-> str(v),
     prefix |-> <<>>,
     suffix |-> <<>>,
     reason |-> IF explain /\ btype \in {"leading", "trailing"} /\ Truthy(mod_boundary)
                THEN btype \o " (possible boundary)"
                ELSE btype]

\* one entry of items in build_missing_segment
MissingItem(v, ed, btype, explain, mod_boundary) ==
    [val    |-> v,
     padded |-> zfill(str(v), Len(str(ed))),
     prefix |-> <<>>,
     suffix |-> <<>>,
     reason |-> IF explain /\ btype \in {"leading", "trailing"} /\ Truthy(mod_boundary)
                THEN btype \o " (possible boundary)"
                ELSE btype]

\* the dict build_missing_segment returns
Segment(st, ed, btype, items) ==
    [start_val |-> st, end_val |-> ed, count |-> Len(items),
     boundary_type |-> btype, missing_items |-> items]

AppendAlways(segs, s) == Append(segs, s)

\* if seg["count"] > 0: segments.append(seg)
AppendIfAny(segs, s) == IF s.count > 0 THEN Append(segs, s) ELSE segs

find_closest_prefix_suffixLast(val, real_cov) ==
    IF real_cov = <<>>
    THEN [prefix |-> <<"???_">>, suffix |-> <<".xxx">>]
    ELSE LET best_diff == SetMin({abs(real_cov[k].val - val) : k \in 1..Len(real_cov)})
             best == real_cov[SetMax({k \in 1..Len(real_cov) :
                                        abs(real_cov[k].val - val) = best_diff})]
         IN [prefix |-> best.prefix, suffix |-> best.suffix]

\* the first entry at the least distance (diff < best_diff keeps the first)
find_closest_prefix_suffix(val, real_cov) ==
    IF real_cov = <<>>
    THEN [prefix |-> <<"???_">>, suffix |-> <<".xxx">>]
    ELSE LET best_diff == SetMin({abs(real_cov[k].val - val) : k \in 1..Len(real_cov)})
             best == real_cov[SetMin({k \in 1..Len(real_cov) :
                                        abs(real_cov[k].val - val) = best_diff})]
         IN [prefix |-> best.prefix, suffix |-> best.suffix]

\* "fill prefix": every missing item takes the decoration of its nearest entry
FillPrefix(segs, real_cov) ==
    [s \in 1..Len(segs) |->
        [segs[s] EXCEPT !.missing_items =
            [m \in 1..Len(segs[s].missing_items) |->
                LET mi   == segs[s].missing_items[m]
                    near == find_closest_prefix_suffix(mi.val, real_cov)
                IN [mi EXCEPT !.prefix = near.prefix, !.suffix = near.suffix]]]]

RECURSIVE SumCounts(_, _)
SumCounts(segs, k) ==
    IF k > Len(segs) THEN 0 ELSE segs[k].count + SumCounts(segs, k + 1)

StatsCountingPicks(group, segs) ==
    [num_missing  |-> SumCounts(segs, 1),
     num_real     |-> Len(group.picks),
     num_segments |-> Len(segs),
     approx_missing_bytes |->
         IF group.artifact_type = "files"
         THEN [num |-> SumSizes(group.picks, 1) * SumCounts(segs, 1),
               den |-> Len(group.picks)]
         ELSE [num |-> 0, den |-> 1]]

\* approx_missing_bytes is the float (total_size / real_count) * total_missing;
\* it is kept as the exact fraction num / den
Stats(group, segs) ==
    LET ps            == group.picks
        isFiles       == group.artifact_type = "files"
        real_count    == IF isFiles THEN Len(ps) ELSE 0
        total_size    == IF isFiles THEN SumSizes(ps, 1) ELSE 0
        total_missing == SumCounts(segs, 1)
    IN [num_missing  |-> total_missing,
        num_real     |-> IF isFiles THEN real_count
                         ELSE Cardinality(AllInts(ps)),
        num_segments |-> Len(segs),
        approx_missing_bytes |->
            IF isFiles /\ real_count > 0
            THEN [num |-> total_size * total_missing, den |-> real_count]
            ELSE [num |-> 0, den |-> 1]]

EmptyResult(group) ==
    [group_info |-> group, segments |-> <<>>,
     stats |-> [num_missing |-> 0, num_real |-> 0, num_segments |-> 0,
                approx_missing_bytes |-> [num |-> 0, den |-> 1]]]

GroupResult(group, segs) ==
    [group_info |-> group,
     segments   |-> FillPrefix(segs, RealCovItems(group.picks, 1)),
     stats      |-> Stats(group, segs)]

-----------------------------------------------------------------------------
(* OUTPUT FORMATTING: the text shown for a missing item *)

reconstruct(mi, show_mode) ==
    IF show_mode = "filename" THEN mi.prefix \o mi.padded \o mi.suffix
    ELSE IF show_mode = "padded" THEN mi.padded
    ELSE IF show_mode = "number" THEN str(mi.val)
    ELSE IF show_mode = "significant"
    THEN SubSeq(mi.padded, max(1, Len(mi.padded) - 2), Len(mi.padded))
    ELSE mi.prefix \o mi.padded \o mi.suffix

-----------------------------------------------------------------------------
(* Bounds of the model and the inputs the runs start from *)

\* observed numbers of the gap-detection runs are drawn from 0..MaxVal
MaxVal == 3

\* with the default command line they are drawn from 0..MaxWide
MaxWide == 6

\* --mod-boundary is drawn from -1..MaxMod
MaxMod == 2

\* --increment is drawn from -1..MaxInc
MaxInc == 2

\* item names of the extraction runs have 1..MaxLen characters
MaxLen == 4

\* iterations followed of a "while v <= ed" loop that never ends
MaxSpin == 2

NoSeg == [st |-> 0, ed |-> 0, btype |-> "", v |-> 0, items |-> <<>>]

BlockPolicies == {"first", "largest", "all", "multi-block-advanced"}

\* the number of capture groups of --range-regex
RangeRegexes == {0, 1, 2}

StartNums == {None} \cup {Some(k) : k \in (0 - 1)..MaxVal}

EndNums == {None} \cup {Some(k) : k \in 0..(MaxVal + 1)}

ModBoundaries == {None} \cup {Some(m) : m \in (0 - 1)..MaxMod}

Increments == (0 - 1)..MaxInc

\* the argparse defaults
DefaultArgs ==
    [check |-> "files", pattern |-> None, filter |-> <<>>,
     group_threshold |-> None, cross_dir_grouping |-> FALSE,
     block_policy |-> "multi-block-advanced",
     multi_range |-> FALSE, range_regex |-> 2,
     start_num |-> None, end_num |-> None, mod_boundary |-> None,
     increment |-> 1, explain |-> FALSE]

\* an entry of out[root]["items"] (the path is not read by the core)
Item(name, size, is_dir) == [name |-> name, size |-> size, is_dir |-> is_dir]

\* files f<v>, one for each number of vs, as collect_files lists them
Files(vs) == [k \in 1..Len(vs) |-> Item(<<"f">> \o str(vs[k]), vs[k] + 1, FALSE)]

OneDir(items) == [files |-> <<[dkey |-> "/d", items |-> items]>>, dirs |-> <<>>]

NameChars == {"a", "-", "0", "2"}

Names == UNION {[1..n -> NameChars] : n \in 1..MaxLen}

\* archive_100-103.zip, shortened to a_100-103.z
ArchiveName == <<"a", "_", "1", "0", "0", "-", "1", "0", "3", ".", "z">>

\* what every run starts with, whatever the command line and the collection
InitRest ==
    /\ pc = "parse_args"
    /\ di = 1
    /\ ii = 1
    /\ cov_list = None
    /\ picks = <<>>
    /\ groups = <<>>
    /\ artifact = "files"
    /\ gi = 1
    /\ si = 0
    /\ segments = <<>>
    /\ seg = NoSeg
    /\ results = <<>>

\* Gap detection runs, each on one directory of files f<v>: every command line
\* of --start-num, --end-num, --mod-boundary and --increment within the bounds;
\* more files with no bounds and no modulus boundary; the files f105, f110
\* with --mod-boundary 100; and the files f8, f11 and the file f11 alone with
\* every --start-num, where missing values have fewer digits than the segment end
Init ==
    /\ \/ \E V \in SUBSET (0..MaxVal), st \in StartNums, en \in EndNums,
            m \in ModBoundaries, inc \in Increments :
            /\ V # {}
            /\ args = [DefaultArgs EXCEPT !.start_num = st, !.end_num = en,
                                          !.mod_boundary = m, !.increment = inc]
            /\ coll = OneDir(Files(sorted(V)))
       \/ \E V \in SUBSET (0..MaxWide), inc \in Increments :
            /\ V # {}
            /\ args = [DefaultArgs EXCEPT !.increment = inc]
            /\ coll = OneDir(Files(sorted(V)))
       \/ \E ex \in BOOLEAN :
            /\ args = [DefaultArgs EXCEPT !.mod_boundary = Some(100),
                                          !.explain = ex]
            /\ coll = OneDir(Files(<<105, 110>>))
       \/ \E vs \in {<<8, 11>>, <<11>>}, st \in StartNums, inc \in 1..MaxInc :
            /\ args = [DefaultArgs EXCEPT !.start_num = st, !.increment = inc]
            /\ coll = OneDir(Files(vs))
    /\ InitRest

\* Extraction runs: one directory with one file of any name within the bounds,
\* every block policy, --multi-range on and off, every range pattern
InitExtract ==
    /\ \E nm \in Names \cup {ArchiveName}, bp \in BlockPolicies,
          mr \in BOOLEAN, rr \in RangeRegexes :
            /\ mr \/ rr = 2
            /\ args = [DefaultArgs EXCEPT !.block_policy = bp,
                                          !.multi_range = mr,
                                          !.range_regex = rr]
            /\ coll = OneDir(<<Item(nm, Len(nm), FALSE)>>)
    /\ InitRest

\* a directory listing has at most MaxItems entries
MaxItems == 3

\* --group-threshold is drawn from -1..MaxThreshold
MaxThreshold == 2

Thresholds == {None} \cup {Some(t) : t \in (0 - 1)..MaxThreshold}

\* names with one number, and one (f1a3) with two
GroupNames == {<<"a", "1">>, <<"f", "2">>, <<"f", "3">>, <<"f", "1", "a", "3">>}

\* the listings of a directory: at most n names of P, no name twice, any order
Listings(P, n) ==
    {l \in UNION {[1..k -> P] : k \in 0..n} :
        \A i, j \in 1..Len(l) : i # j => l[i] # l[j]}

\* the entries collect_files and collect_dirs make of a listing
FileItems(l) == [k \in 1..Len(l) |-> Item(l[k], Len(l[k]) + k, FALSE)]

DirItems(l) == [k \in 1..Len(l) |-> Item(l[k], 0, TRUE)]

\* the directories /d and /e, their entries listed as files and as directories
TwoDirs(l, m) ==
    [files |-> <<[dkey |-> "/d", items |-> FileItems(l)],
                 [dkey |-> "/e", items |-> FileItems(m)]>>,
     dirs  |-> <<[dkey |-> "/d", items |-> DirItems(l)],
                 [dkey |-> "/e", items |-> DirItems(m)]>>]

\* names with a range: f1-3, a5-6
RangeNames == {<<"f", "1", "-", "3">>, <<"a", "5", "-", "6">>, <<"f", "2">>}

\* f1, f2, f50, f51
JumpNames == <<<<"f", "1">>, <<"f", "2">>, <<"f", "5", "0">>, <<"f", "5", "1">>>>

ImgName(d) == <<"i", "m", "g", "_", "0", "0", d, ".", "p", "n", "g">>

\* img_001.png, img_002.png, img_005.png
ImgNames == <<ImgName("1"), ImgName("2"), ImgName("5")>>

\* Grouping runs: two directories with every listing within the bounds, every
\* --group-threshold, per directory and across directories, --filter f or none,
\* block policy "first" or "all", --check files or dirs; the entries
\* f1, f2, f50, f51 with --group-threshold 5 and --check files or both; and the
\* files img_001.png, img_002.png, img_005.png with block policy "first";
\* and names with ranges under --multi-range
InitGroup ==
    /\ \/ \E l \in Listings(GroupNames, MaxItems),
            m \in Listings({<<"a", "1">>, <<"f", "2">>}, 1),
            t \in Thresholds, cd \in BOOLEAN, bp \in {"first", "all"},
            subf \in {<<>>, <<"f">>}, ck \in {"files", "dirs"} :
            /\ args = [DefaultArgs EXCEPT !.group_threshold = t,
                                          !.cross_dir_grouping = cd,
                                          !.block_policy = bp,
                                          !.filter = subf,
                                          !.check = ck]
            /\ coll = TwoDirs(l, m)
       \/ \E cd \in BOOLEAN, ck \in {"files", "both"} :
            /\ args = [DefaultArgs EXCEPT !.group_threshold = Some(5),
                                          !.cross_dir_grouping = cd,
                                          !.check = ck]
            /\ coll = TwoDirs(JumpNames, <<>>)
       \/ \E l \in Listings(RangeNames, 2), t \in Thresholds, cd \in BOOLEAN :
            /\ args = [DefaultArgs EXCEPT !.group_threshold = t,
                                          !.cross_dir_grouping = cd,
                                          !.block_policy = "first",
                                          !.multi_range = TRUE]
            /\ coll = TwoDirs(l, <<>>)
       \/ /\ args = [DefaultArgs EXCEPT !.block_policy = "first"]
          /\ coll = OneDir(FileItems(ImgNames))
    /\ InitRest

\* the numbers of the zero-padded names are PadWidth digits wide
PadWidth == 4

ImgPrefix == <<"i", "m", "g", "_">>

ImgSuffix == <<".", "p", "n", "g">>

\* img_<v zero-padded to w digits>.png
PaddedName(v, w) == ImgPrefix \o zfill(str(v), w) \o ImgSuffix

PaddedFiles(vs, w) ==
    [k \in 1..Len(vs) |-> Item(PaddedName(vs[k], w), vs[k] + 1, FALSE)]

\* numbers on both sides of 10 and of 100, and the pair 40, 45
PaddedVals == {9, 11, 40, 45, 98, 102}

\* Runs on zero-padded names: one directory with the files img_<v>.png, v
\* padded to PadWidth digits, for every set of the numbers above; default
\* command line
InitPadded ==
    /\ \E V \in SUBSET PaddedVals :
         /\ V # {}
         /\ args = DefaultArgs
         /\ coll = OneDir(PaddedFiles(sorted(V), PadWidth))
    /\ InitRest

-----------------------------------------------------------------------------
(* MAIN: the state machine *)

\* the collection being grouped, the group being analysed and its locals
CurColl == IF artifact = "files" THEN coll.files ELSE coll.dirs

CurGroup == groups[gi]

sorted_ints == sorted(AllInts(CurGroup.picks))

actual_min == sorted_ints[1]

actual_max == sorted_ints[Len(sorted_ints)]

seq_start == SeqStart(actual_min, args.start_num, args.mod_boundary)

seq_end == SeqEnd(actual_max, args.end_num, args.mod_boundary)

\* entering build_missing_segment(st, ed, btype, ...)
CallBuild(run, btype) ==
    /\ seg' = [st |-> run.st, ed |-> run.ed, btype |-> btype, v |-> run.st,
               items |-> <<>>]
    /\ pc' = "build"

\* parse_args() returns the namespace; nothing is validated beyond the types
\* and choices, and main() goes on to the first artifact type
ParseArgs ==
    /\ pc = "parse_args"
    /\ pc' = "group"
    /\ artifact' = IF args.check \in {"files", "both"} THEN "files" ELSE "dirs"
    /\ di' = 1
    /\ ii' = 1
    /\ picks' = <<>>
    /\ groups' = <<>>
    /\ UNCHANGED <<args, coll, cov_list, gi, si, segments, seg, results>>

\* group_items: one iteration of "for it in stuff['items']"
GroupRead ==
    /\ pc = "group"
    /\ di <= Len(CurColl)
    /\ ii <= Len(CurColl[di].items)
    /\ LET it   == CurColl[di].items[ii]
           dkey == CurColl[di].dkey
           cl   == parse_coverage_list(it, args.block_policy, args.multi_range,
                                       args.range_regex)
       IN IF item_passes_filter(it, args.pattern, args.filter)
          THEN /\ cov_list' = Some(cl)
               /\ picks' = picks \o [k \in 1..Len(cl) |->
                                [dkey |-> dkey, item |-> it, coverage |-> cl[k]]]
          ELSE /\ cov_list' = None
               /\ picks' = picks
    /\ ii' = ii + 1
    /\ UNCHANGED <<args, coll, pc, di, groups, artifact, gi, si, segments, seg,
                   results>>

\* group_items: the items of a directory are exhausted.  Per directory the
\* picks are sorted and split into groups; across directories they stay in flat
GroupDirEnd ==
    /\ pc = "group"
    /\ di <= Len(CurColl)
    /\ ii > Len(CurColl[di].items)
    /\ IF args.cross_dir_grouping
       THEN UNCHANGED <<picks, groups>>
       ELSE /\ picks' = <<>>
            /\ \E sp \in {PicksOf(SortPicks(picks))} :
                 groups' =
                   IF picks = <<>> THEN groups
                   ELSE groups \o build_subgroups_in_dir(
                            CurColl[di].dkey, sp, args.group_threshold, artifact)
    /\ di' = di + 1
    /\ ii' = 1
    /\ cov_list' = None
    /\ UNCHANGED <<args, coll, pc, artifact, gi, si, segments, seg, results>>

\* group_items returns; main() starts "for i, g in enumerate(gf)"
GroupReturn ==
    /\ pc = "group"
    /\ di > Len(CurColl)
    /\ groups' = IF args.cross_dir_grouping
                 THEN build_groups_from_flat(picks, args.group_threshold, artifact)
                 ELSE groups
    /\ picks' = <<>>
    /\ gi' = 1
    /\ pc' = "detect"
    /\ UNCHANGED <<args, coll, di, ii, cov_list, artifact, si, segments, seg,
                   results>>

\* detect_breaks_in_group(g, ...) is called: the early returns, or on to Leading
DetectCall ==
    /\ pc = "detect"
    /\ gi <= Len(groups)
    /\ IF CurGroup.picks = <<>> \/ AllInts(CurGroup.picks) = {}
       THEN /\ results' = Append(results, EmptyResult(CurGroup))
            /\ gi' = gi + 1
            /\ UNCHANGED <<pc, segments>>
       ELSE /\ segments' = <<>>
            /\ pc' = "leading"
            /\ UNCHANGED <<results, gi>>
    /\ UNCHANGED <<args, coll, di, ii, cov_list, picks, groups, artifact, si, seg>>

\* "# Leading"
Leading ==
    /\ pc = "leading"
    /\ si' = 0
    /\ IF seq_start < actual_min
       THEN CallBuild(LeadingRun(seq_start, actual_min, args.increment), "leading")
       ELSE /\ pc' = "internal"
            /\ UNCHANGED seg
    /\ UNCHANGED <<args, coll, di, ii, cov_list, picks, groups, artifact, gi,
                   segments, results>>

\* "# Internal": one iteration of "for i in range(len(sorted_ints) - 1)"
Internal ==
    /\ pc = "internal"
    /\ IF si >= Len(sorted_ints) - 1
       THEN /\ pc' = "trailing"
            /\ UNCHANGED <<si, seg>>
       ELSE LET cval == sorted_ints[si + 1]
                nval == sorted_ints[si + 2]
            IN IF (nval - cval) > args.increment
               THEN /\ CallBuild(InternalRun(cval, nval, args.increment), "internal")
                    /\ UNCHANGED si
               ELSE /\ si' = si + 1
                    /\ UNCHANGED <<pc, seg>>
    /\ UNCHANGED <<args, coll, di, ii, cov_list, picks, groups, artifact, gi,
                   segments, results>>

\* "# Trailing"
Trailing ==
    /\ pc = "trailing"
    /\ IF seq_end > actual_max
       THEN CallBuild(TrailingRun(seq_end, actual_max, args.increment), "trailing")
       ELSE /\ pc' = "stats"
            /\ UNCHANGED seg
    /\ UNCHANGED <<args, coll, di, ii, cov_list, picks, groups, artifact, gi, si,
                   segments, results>>

\* build_missing_segment: one iteration of "while v <= ed".  With inc <= 0 the
\* loop never ends; the model follows it for MaxSpin iterations only.
BuildLoop ==
    /\ pc = "build"
    /\ seg.v <= seg.ed
    /\ IF args.increment > 0 THEN TRUE ELSE Len(seg.items) < MaxSpin
    /\ seg' = [seg EXCEPT
                 !.items = Append(seg.items,
                               MissingItem(seg.v, seg.ed, seg.btype, args.explain,
                                           args.mod_boundary)),
                 !.v = seg.v + args.increment]
    /\ UNCHANGED <<args, coll, pc, di, ii, cov_list, picks, groups, artifact, gi,
                   si, segments, results>>

\* build_missing_segment returns (ed < st at once, or v > ed after the loop) and
\* the caller appends the segment when its count is positive
BuildReturn ==
    /\ pc = "build"
    /\ seg.v > seg.ed
    /\ segments' = AppendIfAny(segments,
                               Segment(seg.st, seg.ed, seg.btype, seg.items))
    /\ pc' = IF seg.btype = "leading" THEN "internal"
             ELSE IF seg.btype = "internal" THEN "internal"
             ELSE "stats"
    /\ si' = IF seg.btype = "internal" THEN si + 1 ELSE si
    /\ seg' = NoSeg
    /\ UNCHANGED <<args, coll, di, ii, cov_list, picks, groups, artifact, gi,
                   results>>

DetectReturnConsumingPicks ==
    /\ pc = "stats"
    /\ results' = Append(results, GroupResult(CurGroup, segments))
    /\ groups' = [groups EXCEPT ![gi].picks = <<>>]
    /\ segments' = <<>>
    /\ gi' = gi + 1
    /\ pc' = "detect"
    /\ UNCHANGED <<args, coll, di, ii, cov_list, picks, artifact, si, seg>>

\* detect_breaks_in_group: totals, "fill prefix", return; main stores the result
DetectReturn ==
    /\ pc = "stats"
    /\ results' = Append(results, GroupResult(CurGroup, segments))
    /\ segments' = <<>>
    /\ gi' = gi + 1
    /\ pc' = "detect"
    /\ UNCHANGED <<args, coll, di, ii, cov_list, picks, groups, artifact, si, seg>>

\* main: the groups of this artifact type are done; with --check both the
\* directories follow the files, then the results are formatted
MainNext ==
    /\ pc = "detect"
    /\ gi > Len(groups)
    /\ IF artifact = "files" /\ args.check = "both"
       THEN /\ artifact' = "dirs"
            /\ pc' = "group"
            /\ di' = 1
            /\ ii' = 1
            /\ groups' = <<>>
       ELSE /\ pc' = "done"
            /\ UNCHANGED <<artifact, di, ii, groups>>
    /\ UNCHANGED <<args, coll, cov_list, picks, gi, si, segments, seg, results>>

Next ==
    \/ ParseArgs
    \/ GroupRead
    \/ GroupDirEnd
    \/ GroupReturn
    \/ DetectCall
    \/ Leading
    \/ Internal
    \/ Trailing
    \/ BuildLoop
    \/ BuildReturn
    \/ DetectReturn
    \/ MainNext

-----------------------------------------------------------------------------
(* Properties of gap detection, stated over the GroupResults in results *)

\* the observed integers of a GroupResult and its expected range
Observed(r) == AllInts(r.group_info.picks)

ExpStart(r) == SeqStart(SetMin(Observed(r)), args.start_num, args.mod_boundary)

ExpEnd(r) == SeqEnd(SetMax(Observed(r)), args.end_num, args.mod_boundary)

\* the pairs (cur, next) of adjacent observed values more than inc apart
GapPairs(V, inc) ==
    {pr \in V \X V : /\ pr[1] < pr[2]
                     /\ \A c \in V : ~(pr[1] < c /\ c < pr[2])
                     /\ pr[2] - pr[1] > inc}

\* <<start_val, end_val, boundary_type>> of each segment of a list
Bounds(segs) ==
    [k \in 1..Len(segs) |->
        <<segs[k].start_val, segs[k].end_val, segs[k].boundary_type>>]

NoBounds == args.start_num = None /\ args.end_num = None /\ args.mod_boundary = None

\* C1: with no explicit start, no explicit end and no modulus boundary every
\* emitted segment is internal; there is exactly one segment
\* [cur + increment, next - 1] for each pair of adjacent observed values with
\* next - cur > increment and no other segment; a group with one observed value
\* or with no such pair has zero segments and num_missing = 0.
C1_InternalGapsOnly ==
    NoBounds =>
      \A k \in 1..Len(results) :
        LET r     == results[k]
            segs  == r.segments
            pairs == GapPairs(Observed(r), args.increment)
        IN /\ Observed(r) # {}
           /\ \A j \in 1..Len(segs) :
                /\ segs[j].boundary_type = "internal"
                /\ <<segs[j].start_val - args.increment, segs[j].end_val + 1>> \in pairs
           /\ \A pr \in pairs :
                Cardinality({j \in 1..Len(segs) :
                               /\ segs[j].start_val = pr[1] + args.increment
                               /\ segs[j].end_val = pr[2] - 1}) = 1
           /\ Len(segs) = Cardinality(pairs)
           /\ r.stats.num_segments = Cardinality(pairs)
           /\ (Cardinality(Observed(r)) = 1 \/ pairs = {}) =>
                 (segs = <<>> /\ r.stats.num_missing = 0)

\* a run with no bounds whose group has two gaps, and one of a contiguous group
C1_Witness ==
    /\ NoBounds
    /\ pc = "done"
    /\ Len(results) = 1
    /\ Len(results[1].segments) = 2
    /\ Cardinality(GapPairs(Observed(results[1]), args.increment)) = 2

\* C2: with a modulus boundary m >= 1 and no explicit bounds, start is the
\* multiple of m with start <= actualMin < start + m and end + 1 is the multiple
\* of m with actualMax <= end < actualMax + m; for m = 100, increment 1 and the
\* observed values 105, 110 the segments are leading [100,104], internal
\* [106,109], trailing [111,199], in that order.
C2_ModulusSnap ==
    (/\ args.start_num = None
     /\ args.end_num = None
     /\ args.mod_boundary # None
     /\ Val(args.mod_boundary) >= 1) =>
       LET m == Val(args.mod_boundary)
       IN /\ pc \in {"leading", "internal", "trailing", "build", "stats"} =>
               /\ seq_start % m = 0
               /\ seq_start <= actual_min
               /\ actual_min < seq_start + m
               /\ seq_start = (actual_min \div m) * m
               /\ (seq_end + 1) % m = 0
               /\ seq_end >= actual_max
               /\ seq_end < actual_max + m
               /\ seq_end = ((actual_max \div m) + 1) * m - 1
          /\ \A k \in 1..Len(results) :
               LET r == results[k]
               IN (Observed(r) = {105, 110} /\ m = 100 /\ args.increment = 1) =>
                     Bounds(r.segments) = << <<100, 104, "leading">>,
                                             <<106, 109, "internal">>,
                                             <<111, 199, "trailing">> >>

\* the run on f105, f110 with --mod-boundary 100 has returned its result
C2_Witness ==
    /\ pc = "done"
    /\ args.mod_boundary = Some(100)
    /\ args.start_num = None
    /\ args.end_num = None
    /\ Len(results) = 1
    /\ Observed(results[1]) = {105, 110}
    /\ Len(results[1].segments) = 3
    /\ results[1].segments[3].count = 89

\* the candidate runs of a group in the order they are considered, those with
\* end < start left out
RECURSIVE InternalBounds(_, _, _)
InternalBounds(ints, k, inc) ==
    IF k >= Len(ints) THEN <<>>
    ELSE (IF ints[k + 1] - ints[k] > inc
          THEN << <<ints[k] + inc, ints[k + 1] - 1, "internal">> >>
          ELSE <<>>)
         \o InternalBounds(ints, k + 1, inc)

ExpectedBounds(r) ==
    LET V   == Observed(r)
        lo  == SetMin(V)
        hi  == SetMax(V)
        inc == args.increment
    IN (IF ExpStart(r) < lo /\ ExpStart(r) <= lo - inc
        THEN << <<ExpStart(r), lo - inc, "leading">> >> ELSE <<>>)
       \o InternalBounds(sorted(V), 1, inc)
       \o (IF ExpEnd(r) > hi /\ hi + inc <= ExpEnd(r)
           THEN << <<hi + inc, ExpEnd(r), "trailing">> >> ELSE <<>>)

\* the values st, st + inc, ... that are <= ed, in ascending order
StepValues(st, ed, inc) == [k \in 1..((ed - st) \div inc + 1) |-> st + (k - 1) * inc]

\* C3: for every increment >= 1 a leading segment is considered iff
\* start < actualMin, with bounds [start, actualMin - increment]; an internal
\* segment [cur + increment, next - 1] is produced for every adjacent observed
\* pair with next - cur > increment; a trailing segment is considered iff
\* end > actualMax, with bounds [actualMax + increment, end]; the missing items
\* of a segment are the values startValue + k*increment <= endValue in ascending
\* order and count is their number.
C3_SegmentRules ==
    args.increment >= 1 =>
      /\ (pc = "build" /\ seg.btype = "leading") =>
            /\ seq_start < actual_min
            /\ seg.st = seq_start
            /\ seg.ed = actual_min - args.increment
      /\ (pc = "build" /\ seg.btype = "trailing") =>
            /\ seq_end > actual_max
            /\ seg.st = actual_max + args.increment
            /\ seg.ed = seq_end
      /\ (pc = "build" /\ seg.btype = "internal") =>
            /\ sorted_ints[si + 2] - sorted_ints[si + 1] > args.increment
            /\ seg.st = sorted_ints[si + 1] + args.increment
            /\ seg.ed = sorted_ints[si + 2] - 1
      /\ \A k \in 1..Len(results) :
           LET r == results[k]
           IN /\ Bounds(r.segments) = ExpectedBounds(r)
              /\ \A j \in 1..Len(r.segments) :
                   LET s == r.segments[j]
                   IN /\ [i \in 1..Len(s.missing_items) |-> s.missing_items[i].val]
                           = StepValues(s.start_val, s.end_val, args.increment)
                      /\ s.count = Len(s.missing_items)

\* a result with a leading and a trailing segment, step 2
C3_Witness ==
    /\ pc = "done"
    /\ args.increment = 2
    /\ Len(results) = 1
    /\ Len(results[1].segments) = 2
    /\ results[1].segments[1].boundary_type = "leading"
    /\ results[1].segments[2].boundary_type = "trailing"

\* C4: for every increment >= 1 every emitted segment has
\* startValue <= endValue and at least one missing item, and consecutive
\* segments s, t of a result satisfy s.endValue < t.startValue.
C4_SegmentsOrdered ==
    args.increment >= 1 =>
      \A k \in 1..Len(results) :
        LET segs == results[k].segments
        IN /\ \A j \in 1..Len(segs) :
                /\ segs[j].start_val <= segs[j].end_val
                /\ segs[j].count >= 1
                /\ segs[j].missing_items # <<>>
           /\ \A j \in 1..(Len(segs) - 1) :
                segs[j].end_val < segs[j + 1].start_val

\* a result of three segments under explicit bounds
C4_Witness ==
    /\ pc = "done"
    /\ args.increment >= 1
    /\ args.start_num # None
    /\ args.end_num # None
    /\ Len(results) = 1
    /\ Len(results[1].segments) = 3

-----------------------------------------------------------------------------
(* Properties of main() *)

\* the configurations the documentation calls invalid
InvalidConfiguration ==
    \/ args.increment <= 0
    \/ /\ args.mod_boundary # None
       /\ \/ Val(args.mod_boundary) <= 0
          \/ Val(args.mod_boundary) < args.increment
    \/ /\ args.start_num # None
       /\ args.end_num # None
       /\ Val(args.start_num) > Val(args.end_num)

\* C5: a configuration with increment <= 0, a modulus boundary <= 0 or smaller
\* than the increment, or explicit start > explicit end is rejected before any
\* group is processed: main() never gets past parse_args with it, no item is
\* extracted, no group is built and no GroupResult is produced.
C5_InvalidConfigRejected ==
    InvalidConfiguration =>
      /\ pc = "parse_args"
      /\ cov_list = None
      /\ picks = <<>>
      /\ groups = <<>>
      /\ results = <<>>

\* C6: gap detection terminates for every configuration that reaches it: each
\* "while v <= ed" loop reaches v > ed.  The loop changes v only by v += inc
\* and ed is fixed, so it reaches v > ed exactly when every iteration raises v:
\* stated as that, one iteration that does not raise v refutes it.
C6_LoopAdvances ==
    [][(pc = "build" /\ pc' = "build") => seg'.v > seg.v]_vars

-----------------------------------------------------------------------------
(* Properties of coverage extraction, stated over cov_list: the value *)
(* parse_coverage_list returned for the item group_items has just read *)

Extracted == pc = "group" /\ ii > 1 /\ cov_list # None

\* the item whose coverage list is in cov_list
ExtractedItem == CurColl[di].items[ii - 1]

HasDigit(nm) == \E i \in 1..Len(nm) : IsDigit(nm[i])

\* the values of the digit runs of a name, left to right
RunStarts(nm) ==
    {i \in 1..Len(nm) : IsDigit(nm[i]) /\ (i = 1 \/ ~IsDigit(nm[i - 1]))}

RunStop(nm, i) ==
    SetMin({j \in i..Len(nm) : j = Len(nm) \/ ~IsDigit(nm[j + 1])})

RunValues(nm) ==
    LET st == sorted(RunStarts(nm))
    IN [k \in 1..Len(st) |-> int(SubSeq(nm, st[k], RunStop(nm, st[k])))]

\* the seed values a block policy selects, in the order of their coverage sets
Seeds(nm, bp) ==
    LET b == RunValues(nm)
    IN IF b = <<>> THEN <<>>
       ELSE IF bp = "first" THEN <<b[1]>>
       ELSE IF bp = "largest" THEN <<SetMax(Range(b))>>
       ELSE b

\* ascending without duplicates
StrictlyAscending(c) == \A k \in 1..(Len(c) - 1) : c[k] < c[k + 1]

Malformed == args.range_regex < 2

\* C7 as stated: a range pattern with fewer than two groups is reported at
\* setup, so no item is ever extracted and no result produced under it.
C7_MalformedRejected ==
    Malformed => (cov_list = None /\ groups = <<>> /\ results = <<>>)

\* C7 as amended: a range pattern with fewer than two groups is accepted
\* silently; items are extracted under it and each of its matches is skipped,
\* so every coverage set is exactly {seed}, one per seed of the block policy.
C7_MalformedSkipped ==
    (Malformed /\ args.multi_range /\ Extracted) =>
       LET seeds == Seeds(ExtractedItem.name, args.block_policy)
       IN Val(cov_list) = [k \in 1..Len(seeds) |-> <<seeds[k]>>]

\* an item whose name matches the range pattern was extracted under a pattern
\* with fewer than two groups
C7_Witness ==
    /\ Malformed
    /\ args.multi_range
    /\ Extracted
    /\ FindRanges(args.range_regex, ExtractedItem.name, 1) # <<>>
    /\ Len(Val(cov_list)) = 2

\* C8: for an item with no digit run parse_coverage_list returns the empty
\* list under every block policy, multi-range on or off; no pick of a group
\* being built, of a group or of a GroupResult comes from such an item.
C8_NoDigitsNoCoverage ==
    /\ (Extracted /\ ~HasDigit(ExtractedItem.name)) => Val(cov_list) = <<>>
    /\ \A k \in 1..Len(picks) : HasDigit(picks[k].item.name)
    /\ \A g \in 1..Len(groups) :
         \A k \in 1..Len(groups[g].picks) : HasDigit(groups[g].picks[k].item.name)
    /\ \A r \in 1..Len(results) :
         \A k \in 1..Len(results[r].group_info.picks) :
            HasDigit(results[r].group_info.picks[k].item.name)
    /\ (\A d \in 1..Len(CurColl) : \A k \in 1..Len(CurColl[d].items) :
           ~HasDigit(CurColl[d].items[k].name)) =>
         (picks = <<>> /\ groups = <<>> /\ results = <<>>)

\* an item without digits was extracted with multi-range on
C8_Witness ==
    /\ Extracted
    /\ ~HasDigit(ExtractedItem.name)
    /\ Len(ExtractedItem.name) >= 2
    /\ args.multi_range
    /\ args.block_policy = "largest"
    /\ Val(cov_list) = <<>>

\* C9: with multi-range off and digit runs b1..bn (n >= 1): "first" returns the
\* one set {b1}, "largest" the one set {max(b1..bn)}, "all" and
\* "multi-block-advanced" the n sets {b1}, ..., {bn} in that order; every
\* returned set is non-empty and strictly ascending.
C9_PolicySeeds ==
    (Extracted /\ ~args.multi_range /\ HasDigit(ExtractedItem.name)) =>
       LET b  == RunValues(ExtractedItem.name)
           cl == Val(cov_list)
       IN /\ Len(b) >= 1
          /\ args.block_policy = "first" => cl = << <<b[1]>> >>
          /\ args.block_policy = "largest" => cl = << <<SetMax(Range(b))>> >>
          /\ args.block_policy \in {"all", "multi-block-advanced"} =>
                cl = [k \in 1..Len(b) |-> <<b[k]>>]
          /\ \A k \in 1..Len(cl) : cl[k] # <<>> /\ StrictlyAscending(cl[k])

\* "all" on a name with two digit runs of the same value: both are kept
C9_Witness ==
    /\ Extracted
    /\ ~args.multi_range
    /\ args.block_policy = "all"
    /\ RunValues(ExtractedItem.name) = <<2, 2>>
    /\ Val(cov_list) = << <<2>>, <<2>> >>

\* the integers of [min(a,b), max(a,b)] of every match (a, b) of (\d+)-(\d+)
RangeUnion(nm) ==
    LET ms == FindRanges(2, nm, 1)
    IN UNION {min(int(ms[k].parts[1]), int(ms[k].parts[2]))
                ..max(int(ms[k].parts[1]), int(ms[k].parts[2])) : k \in 1..Len(ms)}

\* with multi-range on and the pattern (\d+)-(\d+), one coverage set per seed,
\* each the seed and the integers of every matched range and nothing else
C10_General ==
    (Extracted /\ args.multi_range /\ args.range_regex = 2) =>
       LET nm    == ExtractedItem.name
           seeds == Seeds(nm, args.block_policy)
           cl    == Val(cov_list)
       IN /\ Len(cl) = Len(seeds)
          /\ \A k \in 1..Len(cl) :
               /\ Range(cl[k]) = {seeds[k]} \cup RangeUnion(nm)
               /\ StrictlyAscending(cl[k])

ArchiveExtracted ==
    /\ Extracted
    /\ args.multi_range
    /\ args.range_regex = 2
    /\ ExtractedItem.name = ArchiveName

\* C10 as stated: every coverage set is {seed} united with the ranges of all
\* matches, and archive_100-103.zip gives the single coverage set
\* {100,101,102,103} under each block policy.
C10_ArchiveSingleSet ==
    /\ C10_General
    /\ ArchiveExtracted => Val(cov_list) = << <<100, 101, 102, 103>> >>

\* C10 as amended: every coverage set is {seed} united with the ranges of all
\* matches; archive_100-103.zip gives the single coverage set {100,101,102,103}
\* under "first" and "largest", and two coverage sets, each {100,101,102,103},
\* under "all" and "multi-block-advanced" (one for each of its two digit runs).
C10_RangeExpansion ==
    /\ C10_General
    /\ ArchiveExtracted =>
         Val(cov_list) =
            IF args.block_policy \in {"first", "largest"}
            THEN << <<100, 101, 102, 103>> >>
            ELSE << <<100, 101, 102, 103>>, <<100, 101, 102, 103>> >>

\* archive_100-103.zip extracted under the default block policy
C10_Witness ==
    /\ ArchiveExtracted
    /\ args.block_policy = "multi-block-advanced"
    /\ Len(Val(cov_list)) = 2

-----------------------------------------------------------------------------
(* Properties of grouping, stated over groups: the value group_items returned *)
(* for the collection of the current artifact type                            *)

Grouped == pc \notin {"parse_args", "group"}

\* the representative value of a pick
Rep(p) == p.coverage[1]

\* the groups of one directory, in the order they were emitted
GroupsOfDir(dkey) ==
    LET InDir(g) == g.directory = Some(dkey)
    IN SelectSeq(groups, InDir)

\* the group sequences that are split independently of each other: one for
\* each directory, or the one of the pool
Units ==
    IF args.cross_dir_grouping THEN {groups}
    ELSE {GroupsOfDir(CurColl[k].dkey) : k \in 1..Len(CurColl)}

\* adjacent picks of one group are at most t apart, and the last pick of a group
\* and the first of the next are more than t apart
SplitAt(G, t) ==
    /\ \A i \in 1..Len(G) : \A j \in 1..(Len(G[i].picks) - 1) :
         Rep(G[i].picks[j + 1]) - Rep(G[i].picks[j]) <= t
    /\ \A i \in 1..(Len(G) - 1) :
         Rep(G[i + 1].picks[1]) - Rep(G[i].picks[Len(G[i].picks)]) > t

RepsOf(g) == [j \in 1..Len(g.picks) |-> Rep(g.picks[j])]

JumpScenario ==
    /\ args.group_threshold = Some(5)
    /\ \A k \in 1..Len(CurColl) : \A j \in 1..Len(CurColl[k].items) :
         CurColl[k].items[j].name \in Range(JumpNames)
    /\ \E k \in 1..Len(CurColl) : Len(CurColl[k].items) = Len(JumpNames)

\* C11: for every --group-threshold t given, in each directory (or in the pool)
\* two picks adjacent in the sorted order are in the same group iff their
\* representative values differ by at most t; with t = 5 the values
\* 1, 2, 50, 51 make the two groups {1, 2} and {50, 51}
C11_ThresholdSplit ==
    (Grouped /\ args.group_threshold # None) =>
        /\ \A G \in Units : SplitAt(G, Val(args.group_threshold))
        /\ JumpScenario =>
             /\ Len(groups) = 2
             /\ RepsOf(groups[1]) = <<1, 2>>
             /\ RepsOf(groups[2]) = <<50, 51>>

\* the picks group_items makes of the items j.. of directory k, in the order
\* they are appended: one for each coverage set of each item passing the filter
RECURSIVE RawPicks(_, _)
RawPicks(k, j) ==
    IF j > Len(CurColl[k].items) THEN <<>>
    ELSE LET it == CurColl[k].items[j]
             cl == parse_coverage_list(it, args.block_policy, args.multi_range,
                                       args.range_regex)
         IN (IF item_passes_filter(it, args.pattern, args.filter)
             THEN [c \in 1..Len(cl) |-> [item |-> it, coverage |-> cl[c]]]
             ELSE <<>>) \o RawPicks(k, j + 1)

\* the picks of the directories k.. together
RECURSIVE PoolPicks(_)
PoolPicks(k) ==
    IF k > Len(CurColl) THEN <<>> ELSE RawPicks(k, 1) \o PoolPicks(k + 1)

DirsWithPicks == {k \in 1..Len(CurColl) : RawPicks(k, 1) # <<>>}

\* C12 as stated: with no threshold, one group for each directory of the
\* collection, or one for the pool, whatever the items are
C12_OneGroupEach ==
    (Grouped /\ args.group_threshold = None) =>
        IF args.cross_dir_grouping THEN Len(groups) = 1
        ELSE \A k \in 1..Len(CurColl) : Len(GroupsOfDir(CurColl[k].dkey)) = 1

\* C12: with no threshold, group_items returns one group for each directory
\* that yields at least one pick and none for a directory that yields no pick;
\* across directories it returns one group if the pool has a pick, else none
C12_OneGroupPerNonEmpty ==
    (Grouped /\ args.group_threshold = None) =>
        IF args.cross_dir_grouping
        THEN Len(groups) = (IF PoolPicks(1) # <<>> THEN 1 ELSE 0)
        ELSE /\ Len(groups) = Cardinality(DirsWithPicks)
             /\ \A k \in 1..Len(CurColl) :
                  Len(GroupsOfDir(CurColl[k].dkey)) =
                      (IF k \in DirsWithPicks THEN 1 ELSE 0)

\* no threshold, /d with picks whose values are apart, /e with no entry
C12_Witness ==
    /\ Grouped
    /\ args.group_threshold = None
    /\ ~args.cross_dir_grouping
    /\ DirsWithPicks = {1}
    /\ Len(groups) = 1
    /\ \E j \in 1..(Len(groups[1].picks) - 1) :
         Rep(groups[1].picks[j + 1]) - Rep(groups[1].picks[j]) > 1

\* the picks of the groups i.. of G, one after the other
RECURSIVE ConcatPicks(_, _)
ConcatPicks(G, i) ==
    IF i > Len(G) THEN <<>> ELSE G[i].picks \o ConcatPicks(G, i + 1)

Count(sq, x) == Cardinality({i \in 1..Len(sq) : sq[i] = x})

\* the same picks, each as many times
SamePicks(a, b) ==
    /\ Len(a) = Len(b)
    /\ \A x \in Range(a) \cup Range(b) : Count(a, x) = Count(b, x)

MinRep(p) == SetMin(Range(p.coverage))

\* (representative value, name) of p is not above that of q
KeyLeq(p, q) ==
    \/ MinRep(p) < MinRep(q)
    \/ MinRep(p) = MinRep(q) /\ ~StrLess(q.item.name, p.item.name)

Ordered(sq) == \A j \in 1..(Len(sq) - 1) : KeyLeq(sq[j], sq[j + 1])

\* the groups G are a split of the sorted sequence of the picks raw
PartitionOf(G, raw) ==
    /\ \A i \in 1..Len(G) : G[i].picks # <<>>
    /\ SamePicks(ConcatPicks(G, 1), raw)
    /\ Ordered(ConcatPicks(G, 1))

\* C13: the groups returned by group_items partition the picks: every pick made
\* of an item passing the filter is in exactly one group and no group is
\* empty; the picks of a group are in ascending order of (minimum of the
\* coverage set, item name), and the groups of a directory (or of the pool),
\* one after the other, are the sorted sequence of its picks
C13_GroupsPartitionPicks ==
    Grouped =>
        IF args.cross_dir_grouping
        THEN PartitionOf(groups, PoolPicks(1))
        ELSE /\ \A k \in 1..Len(CurColl) :
                  PartitionOf(GroupsOfDir(CurColl[k].dkey), RawPicks(k, 1))
             /\ \A i \in 1..Len(groups) :
                  \E k \in 1..Len(CurColl) : groups[i].directory = Some(CurColl[k].dkey)

\* a directory listed out of order whose picks are split into two groups or
\* more, one item contributing two picks, another item filtered out
C13_Witness ==
    /\ Grouped
    /\ ~args.cross_dir_grouping
    /\ args.filter # <<>>
    /\ Len(GroupsOfDir(CurColl[1].dkey)) >= 2
    /\ ConcatPicks(GroupsOfDir(CurColl[1].dkey), 1) # RawPicks(1, 1)
    /\ Len(RawPicks(1, 1)) < Len(CurColl[1].items) + 1
    /\ \E i, j \in 1..Len(RawPicks(1, 1)) :
         i # j /\ RawPicks(1, 1)[i].item = RawPicks(1, 1)[j].item

\* the position of a group's directory in the iteration over the collection
DirIndex(g) == CHOOSE k \in 1..Len(CurColl) : g.directory = Some(CurColl[k].dkey)

\* the groups G of one directory (of the pool) are in ascending order of
\* representative value
Ascending(G) ==
    \A n \in 1..(Len(G) - 1) :
        Rep(G[n].picks[Len(G[n].picks)]) <= Rep(G[n + 1].picks[1])

\* C14: no two groups returned by one call of group_items have the same
\* group_id; the groups come in directory iteration order and, inside one
\* directory or the pool, in ascending order of representative value, their
\* ids numbered 0, 1, 2, ... in that order
C14_GroupIdsUnique ==
    Grouped =>
        /\ \A i, j \in 1..Len(groups) :
             i # j => groups[i].group_id # groups[j].group_id
        /\ IF args.cross_dir_grouping
           THEN /\ Ascending(groups)
                /\ \A n \in 1..Len(groups) :
                     groups[n].group_id = "crossdir_" \o ToString(n - 1)
           ELSE /\ \A i, j \in 1..Len(groups) :
                     i < j => DirIndex(groups[i]) <= DirIndex(groups[j])
                /\ \A k \in 1..Len(CurColl) :
                     LET G == GroupsOfDir(CurColl[k].dkey)
                     IN /\ Ascending(G)
                        /\ \A n \in 1..Len(G) :
                             G[n].group_id =
                                 CurColl[k].dkey \o "__group" \o ToString(n - 1)

\* two groups of /d followed by a group of /e
C14_Witness ==
    /\ Grouped
    /\ ~args.cross_dir_grouping
    /\ Len(groups) = 3
    /\ groups[2].directory = Some("/d")
    /\ groups[3].directory = Some("/e")
    /\ groups[2].group_id = "/d__group1"
    /\ groups[3].group_id = "/e__group0"

-----------------------------------------------------------------------------
(* Properties of the decoration and the totals of a GroupResult *)

\* the real coverage entries of a group: (pick, position in its coverage)
Entries(g) ==
    UNION {{<<a, c>> : c \in 1..Len(g.picks[a].coverage)} : a \in 1..Len(g.picks)}

EntryVal(g, e) == g.picks[e[1]].coverage[e[2]]

\* pick order first, then coverage order
EntryBefore(e, f) == e[1] < f[1] \/ (e[1] = f[1] /\ e[2] < f[2])

\* e is at the least distance from v, and the first such entry
Nearest(g, e, v) ==
    \A f \in Entries(g) :
        /\ abs(EntryVal(g, e) - v) <= abs(EntryVal(g, f) - v)
        /\ EntryBefore(f, e) => abs(EntryVal(g, e) - v) < abs(EntryVal(g, f) - v)

EntryDecoration(g, e) == guess_prefix_suffix(g.picks[e[1]].item, g.picks[e[1]].coverage[1])

ImgScenario ==
    /\ Len(CurColl) = 1
    /\ [j \in 1..Len(CurColl[1].items) |-> CurColl[1].items[j].name] = ImgNames

ShownNames(sg) ==
    [m \in 1..Len(sg.missing_items) |-> reconstruct(sg.missing_items[m], "filename")]

\* C15: every missing item takes the prefix and suffix of the real coverage
\* entry nearest to its value, the first in pick order, then coverage order,
\* among those at the same distance; img_001.png, img_002.png, img_005.png give
\* one internal segment [3, 4] of count 2 shown as img_003.png, img_004.png
C15_NearestDecoration ==
    /\ \A r \in 1..Len(results) : \A sg \in 1..Len(results[r].segments) :
         \A m \in 1..Len(results[r].segments[sg].missing_items) :
            LET g  == results[r].group_info
                mi == results[r].segments[sg].missing_items[m]
            IN \E e \in Entries(g) :
                 /\ Nearest(g, e, mi.val)
                 /\ mi.prefix = EntryDecoration(g, e)[1]
                 /\ mi.suffix = EntryDecoration(g, e)[2]
    /\ (ImgScenario /\ pc = "done") =>
         /\ Len(results) = 1
         /\ Len(results[1].segments) = 1
         /\ results[1].segments[1].boundary_type = "internal"
         /\ results[1].segments[1].start_val = 3
         /\ results[1].segments[1].end_val = 4
         /\ results[1].segments[1].count = 2
         /\ ShownNames(results[1].segments[1]) =
               <<<<"i", "m", "g", "_", "0", "0", "3", ".", "p", "n", "g">>,
                 <<"i", "m", "g", "_", "0", "0", "4", ".", "p", "n", "g">>>>

\* a missing value with two real entries at the same least distance whose
\* prefixes differ
C15_Witness ==
    /\ pc = "done"
    /\ \E r \in 1..Len(results) :
         /\ results[r].segments # <<>>
         /\ LET g  == results[r].group_info
                mi == results[r].segments[1].missing_items[1]
            IN \E e, f \in Entries(g) :
                 /\ EntryBefore(e, f)
                 /\ Nearest(g, e, mi.val)
                 /\ abs(EntryVal(g, f) - mi.val) = abs(EntryVal(g, e) - mi.val)
                 /\ EntryDecoration(g, e)[1] # EntryDecoration(g, f)[1]
                 /\ mi.prefix = EntryDecoration(g, e)[1]

\* the number of missing items of the segments k..
RECURSIVE SumMissing(_, _)
SumMissing(segs, k) ==
    IF k > Len(segs) THEN 0
    ELSE Len(segs[k].missing_items) + SumMissing(segs, k + 1)

\* C16: in every GroupResult num_missing is the number of missing items of the
\* emitted segments and num_segments their number; num_real is the number of
\* picks of a files group and the number of distinct observed integers of a
\* directories group; approx_missing_bytes is 0 for a directories group and
\* for a group with nothing missing
C16_StatsTotals ==
    \A r \in 1..Len(results) :
        LET g  == results[r].group_info
            st == results[r].stats
        IN /\ st.num_missing = SumMissing(results[r].segments, 1)
           /\ st.num_segments = Len(results[r].segments)
           /\ st.num_real = (IF g.artifact_type = "files" THEN Len(g.picks)
                             ELSE Cardinality(Observed(results[r])))
           /\ (g.artifact_type = "dirs" \/ st.num_missing = 0) =>
                 st.approx_missing_bytes.num = 0

\* a directories group with a value observed twice and a value missing
C16_Witness ==
    \E r \in 1..Len(results) :
        LET g  == results[r].group_info
            st == results[r].stats
        IN /\ g.artifact_type = "dirs"
           /\ Len(g.picks) > Cardinality(Observed(results[r]))
           /\ st.num_missing > 0
           /\ st.num_real = Cardinality(Observed(results[r]))

-----------------------------------------------------------------------------
(* Grouping and detection run again, as functions of the collection and the  *)
(* command line alone                                                        *)

\* group_items on the directories k.. of the current collection
RECURSIVE ReGroupDirs(_)
ReGroupDirs(k) ==
    IF k > Len(CurColl) THEN <<>>
    ELSE (IF RawPicks(k, 1) = <<>> THEN <<>>
          ELSE build_subgroups_in_dir(CurColl[k].dkey, SortPicks(RawPicks(k, 1)),
                                      args.group_threshold, artifact))
         \o ReGroupDirs(k + 1)

ReGroup ==
    IF args.cross_dir_grouping
    THEN build_groups_from_flat(PoolPicks(1), args.group_threshold, artifact)
    ELSE ReGroupDirs(1)

\* build_missing_segment(st, ed, btype, ...)
ReBuild(run, btype) ==
    Segment(run.st, run.ed, btype,
            IF run.ed < run.st THEN <<>>
            ELSE [k \in 1..Len(StepValues(run.st, run.ed, args.increment)) |->
                     MissingItem(StepValues(run.st, run.ed, args.increment)[k],
                                 run.ed, btype, args.explain, args.mod_boundary)])

\* the internal segments from the pair (ints[i], ints[i + 1]) on
RECURSIVE ReInternal(_, _, _)
ReInternal(ints, i, segs) ==
    IF i >= Len(ints) THEN segs
    ELSE ReInternal(ints, i + 1,
            IF ints[i + 1] - ints[i] > args.increment
            THEN AppendIfAny(segs, ReBuild(InternalRun(ints[i], ints[i + 1],
                                                       args.increment), "internal"))
            ELSE segs)

\* detect_breaks_in_group on the group g
ReDetect(g) ==
    IF g.picks = <<>> \/ AllInts(g.picks) = {} THEN EmptyResult(g)
    ELSE LET ints == sorted(AllInts(g.picks))
             lo   == ints[1]
             hi   == ints[Len(ints)]
             st   == SeqStart(lo, args.start_num, args.mod_boundary)
             en   == SeqEnd(hi, args.end_num, args.mod_boundary)
             lead == IF st < lo
                     THEN AppendIfAny(<<>>, ReBuild(LeadingRun(st, lo, args.increment),
                                                    "leading"))
                     ELSE <<>>
             mid  == ReInternal(ints, 1, lead)
             all  == IF en > hi
                     THEN AppendIfAny(mid, ReBuild(TrailingRun(en, hi, args.increment),
                                                   "trailing"))
                     ELSE mid
         IN GroupResult(g, all)

\* the results of the current call of group_items start after this many
ResultBase == Len(results) - (gi - 1)

-----------------------------------------------------------------------------
(* Properties of the missing values and their padded forms *)

NumDigits(n) == Len(StrNat(abs(n)))

\* C18: in every emitted segment the padded form of a missing item is its
\* decimal value with zeros put on the left (after the sign) up to the number
\* of decimal digits of the segment's end_val, and never cut: its length is the
\* larger of that number and the length of the value's own text, so that the
\* padded forms of the non-negative values of a segment all have the length of
\* its end_val, whatever the width of the numbers in the names
C18_PaddedToEndWidth ==
    \A r \in 1..Len(results) : \A sg \in 1..Len(results[r].segments) :
        LET s == results[r].segments[sg]
        IN \A m \in 1..Len(s.missing_items) :
             LET mi   == s.missing_items[m]
                 body == IF mi.val < 0 THEN Tail(mi.padded) ELSE mi.padded
             IN /\ mi.padded # <<>>
                /\ (mi.val < 0) = (mi.padded[1] = "-")
                /\ \A c \in 1..Len(body) : IsDigit(body[c])
                /\ int(body) = abs(mi.val)
                /\ Len(mi.padded) = max(Len(str(mi.val)), NumDigits(s.end_val))
                /\ mi.val >= 0 => Len(mi.padded) = NumDigits(s.end_val)

\* the leading segment [-1, 10] before f11: -1 stays "-1", 0 becomes "00"
C18_Witness ==
    /\ pc = "done"
    /\ Len(results) = 1
    /\ results[1].segments # <<>>
    /\ LET s == results[1].segments[1]
       IN /\ s.start_val = 0 - 1
          /\ s.end_val = 10
          /\ s.missing_items[1].padded = <<"-", "1">>
          /\ s.missing_items[2].padded = <<"0", "0">>
          /\ s.missing_items[s.count].padded = <<"1", "0">>

\* the missing values of the segments k.., in the order they are reported
RECURSIVE MissingVals(_, _)
MissingVals(segs, k) ==
    IF k > Len(segs) THEN <<>>
    ELSE [m \in 1..Len(segs[k].missing_items) |-> segs[k].missing_items[m].val]
         \o MissingVals(segs, k + 1)

\* the expected range of a result contains its observed range
RangeContainsObserved(r) ==
    /\ ExpStart(r) <= SetMin(Observed(r))
    /\ SetMax(Observed(r)) <= ExpEnd(r)

\* C19: with increment 1 and an expected range [start, end] that contains the
\* observed range, the missing values of a group are exactly the integers of
\* [start, end] that are not observed, each reported once
C19_ExactComplement ==
    \A r \in 1..Len(results) :
        (args.increment = 1 /\ RangeContainsObserved(results[r])) =>
            LET vals == MissingVals(results[r].segments, 1)
            IN /\ Range(vals) =
                    (ExpStart(results[r])..ExpEnd(results[r])) \ Observed(results[r])
               /\ Range(vals) \cap Observed(results[r]) = {}
               /\ Cardinality(Range(vals)) = Len(vals)

\* a group with values missing before, between and after the observed ones
C19_Witness ==
    /\ pc = "done"
    /\ args.increment = 1
    /\ Len(results) = 1
    /\ RangeContainsObserved(results[1])
    /\ Observed(results[1]) = {1, 3}
    /\ MissingVals(results[1].segments, 1) = <<0, 2, 4>>

\* C20: every missing value reported for a group lies inside the expected
\* range [start, end] of the group (the explicit bound if given, else the
\* observed minimum or maximum, snapped to the modulus boundary when one is
\* configured), for every valid configuration with start <= end, also when a
\* bound lies strictly inside the observed range
C20_MissingInsideRange ==
    \A r \in 1..Len(results) :
        (~InvalidConfiguration /\ ExpStart(results[r]) <= ExpEnd(results[r])) =>
            \A v \in Range(MissingVals(results[r].segments, 1)) :
                ExpStart(results[r]) <= v /\ v <= ExpEnd(results[r])

-----------------------------------------------------------------------------
(* Properties of the reconstructed names *)

\* every real item of the group is img_<number, PadWidth digits>.png
AllPadded(g) ==
    \A k \in 1..Len(g.picks) :
        /\ g.picks[k].coverage[1] >= 0
        /\ g.picks[k].item.name = PaddedName(g.picks[k].coverage[1], PadWidth)

\* C21: when every real item of a group is named prefix + number zero-padded to
\* one width w + suffix, the name reconstructed for a missing value that fits
\* in w digits is prefix + that value zero-padded to w + suffix: its numeric
\* field is w digits wide and denotes the missing value, also when the value
\* has more digits than the nearest real one
C21_ReconstructedWidth ==
    \A r \in 1..Len(results) :
        AllPadded(results[r].group_info) =>
            \A sg \in 1..Len(results[r].segments) :
                \A m \in 1..Len(results[r].segments[sg].missing_items) :
                    LET mi == results[r].segments[sg].missing_items[m]
                    IN (mi.val >= 0 /\ Len(str(mi.val)) <= PadWidth) =>
                           reconstruct(mi, "filename") = PaddedName(mi.val, PadWidth)

Spec == Init /\ [][Next]_vars

SpecExtract == InitExtract /\ [][Next]_vars

SpecGroup == InitGroup /\ [][Next]_vars

SpecPadded == InitPadded /\ [][Next]_vars

====
